---- MODULE Spec2Model ----
(***************************************************************************)
(* The Veda tutor services of servrside/: rigveda_app.py, samaveda_app.py, *)
(* yajurveda_app.py and atharvaveda_app.py.  Each file is one Flask        *)
(* application with its own module globals (index, verses, conversations,  *)
(* user_quiz_states); a behaviour of the model is a run of one of them,    *)
(* chosen by the variable veda.  The variable apps holds the globals of    *)
(* all four processes in the runs that address more than one of them.      *)
(*                                                                         *)
(* Python values are modelled as follows.  None is a record whose field    *)
(* some is FALSE.  A dict is a function whose DOMAIN is the set of keys.   *)
(* A list is a sequence; Python's 0-based subscripts are kept and mapped   *)
(* by PyIndex.  Timestamps of messages are left out.                       *)
(***************************************************************************)
EXTENDS Integers, Sequences, FiniteSets, TLC

VARIABLES
    veda,              \* which application this process runs
    index,             \* global index: the FAISS index, or None
    verses,            \* global verses: the unpickled verse list, or None
    conversations,     \* global conversations: session_id -> list of messages
    user_quiz_states,  \* global user_quiz_states: session_id -> quiz state
    response,          \* what the last call returned to its caller
    triggerLog,        \* history: per session, the quiz flags returned so far
    evalPc,            \* position of the should_trigger_quiz call in progress
    apps,              \* the globals of the four applications run side by side
    threads            \* request threads in progress: positions, locals, dict objects

vars == <<veda, index, verses, conversations, user_quiz_states, response,
          triggerLog, evalPc, apps, threads>>

\* ------------------------------------------------------------------ bounds
MaxMore  == 0   \* recorded exchanges of a run past its first quiz period
MaxCalls == 8   \* should_trigger_quiz calls on one session
MaxRows  == 3   \* rows of the vector index
MaxScore == 2   \* distinct inner-product scores
MaxEntries   == 6   \* comma-separated entries of a topic completion
MaxQuestions == 3   \* questions of a quiz
MaxRaceAsks  == 3   \* asks started by the request threads of one run
MaxStored    == 2   \* exchanges and seeded conversations over the four applications

\* --------------------------------------------------------------- constants
Vedas == {"rigveda", "samaveda", "yajurveda", "atharvaveda"}

\* The three applications written after rigveda_app.py share one structure.
Hardened(v) == v \in {"samaveda", "yajurveda", "atharvaveda"}

\* 'quiz_frequency' of a fresh quiz state.
QuizFrequency(v) == IF v = "rigveda" THEN 4 ELSE 3

\* Session ids a client can send; "" is the falsy one.
SessionIds == {"s1", "s2", ""}
TruthyAlways(s) == TRUE
Truthy(s) == s # ""

\* Queries after .strip(); "" is rejected by api_ask.
Queries == {"fire", ""}

\* topk values a client sends with an ask: 0 makes index.search raise.
AskTopKs == {0, 2}

\* The label FAISS writes in the slots it cannot fill, and the score there.
PadLabel == -1
PadScore == 0

Scores == 1..MaxScore

\* ------------------------------------------------------------ Python values
NoneIndex  == [some |-> FALSE, ntotal |-> 0]
NoneVerses == [some |-> FALSE, recs |-> <<>>]

\* The verse record the offline job stored for 0-based row i.
VerseAt(i) == [row |-> i, text_sa |-> "text"]

\* A verse list of n records, aligned with rows 0..n-1.
VerseList(n) == [j \in 1..n |-> VerseAt(j - 1)]

\* list[i] of Python: negative subscripts count from the end.
PyInRange(list, i) == i < Len(list) /\ 0 - i <= Len(list)
PyIndex(list, i) == IF i >= 0 THEN list[i + 1] ELSE list[Len(list) + i + 1]

\* ----------------------------------------------------------------- load_data
\* The state of the two files at one candidate location.
IndexFileStates == {"missing", "corrupt", "ok"}
MetaFileStates  == {"missing", "corrupt", "ok"}
\* A metadata file that holds one record fewer than the index has rows.
MetaFileStatesShort == MetaFileStates \cup {"short"}

\* Number of candidate locations load_data tries.
NCandidates(v) == IF v = "rigveda" THEN 1 ELSE 4

FileSystems(v, metaStates) ==
    [1..NCandidates(v) -> [index : IndexFileStates, meta : metaStates]]

ReadMeta(st) == IF st = "ok" THEN VerseList(MaxRows) ELSE VerseList(MaxRows - 1)

SomeIndex == [some |-> TRUE, ntotal |-> MaxRows]
SomeVerses(st) == [some |-> TRUE, recs |-> ReadMeta(st)]

\* The result of load_data: the two globals, the value returned, and the
\* candidate each global was read from (0: none).
LoadResult(idx, isrc, vs, vsrc, ok) ==
    [index |-> idx, index_src |-> isrc, verses |-> vs, verses_src |-> vsrc,
     ok |-> ok]

\* rigveda_app.load_data: one location, no existence test; the global index
\* is assigned before the metadata file is opened.
LoadDataRigveda(fs) ==
    IF fs[1].index # "ok"
    THEN LoadResult(NoneIndex, 0, NoneVerses, 0, FALSE)
    ELSE IF fs[1].meta \in {"missing", "corrupt"}
    THEN LoadResult(SomeIndex, 1, NoneVerses, 0, FALSE)
    ELSE LoadResult(SomeIndex, 1, SomeVerses(fs[1].meta), 1, TRUE)

\* The loop of the other load_data functions, from candidate p on, with the
\* globals as they stand (idx read from candidate isrc).
RECURSIVE LoadDataFrom(_, _, _, _)
LoadDataFrom(fs, p, idx, isrc) ==
    IF p > Len(fs)
    THEN LoadResult(idx, isrc, NoneVerses, 0, FALSE)
    ELSE IF fs[p].index = "missing" \/ fs[p].meta = "missing"
    THEN LoadDataFrom(fs, p + 1, idx, isrc)
    ELSE IF fs[p].index = "corrupt"
    THEN LoadDataFrom(fs, p + 1, idx, isrc)
    ELSE IF fs[p].meta = "corrupt"
    THEN LoadDataFrom(fs, p + 1, SomeIndex, p)
    ELSE LoadResult(SomeIndex, p, SomeVerses(fs[p].meta), p, TRUE)

load_data(v, fs) ==
    IF v = "rigveda" THEN LoadDataRigveda(fs)
    ELSE LoadDataFrom(fs, 1, NoneIndex, 0)

\* ------------------------------------------------------- embed and search
\* What the index holds, seen from one query vector: its rows best-first,
\* each with its inner product.  Equal scores are possible (the corpus holds
\* repeated verses) and their order is the library's choice.
Rankings(n) ==
    { r \in [1..n -> [row : 0..(n - 1), score : Scores]] :
        /\ \A i, j \in 1..n : i # j => r[i].row # r[j].row
        /\ \A i \in 1..n : i < n => r[i].score >= r[i + 1].score }

\* embed: rigveda_app re-raises a failure of the embeddings call; the other
\* applications return a random vector instead.
embed(v, embedOk) ==
    [raised |-> (v = "rigveda" /\ ~embedOk), random |-> (v # "rigveda" /\ ~embedOk)]

\* index.search(q, topk) of an IndexFlatIP: the best min(topk, ntotal) rows,
\* then PadLabel in the slots that cannot be filled.
IndexSearch(ranking, topk) ==
    [I |-> [j \in 1..topk |-> IF j <= Len(ranking) THEN ranking[j].row ELSE PadLabel],
     D |-> [j \in 1..topk |-> IF j <= Len(ranking) THEN ranking[j].score ELSE PadScore]]

SearchRaised(err, embedCalled) ==
    [raised |-> TRUE, error |-> err, pairs |-> <<>>, embed_called |-> embedCalled]

\* search with the query embedded before the globals are tested.
searchEmbedFirst(v, idx, vs, embedOk, ranking, topk) ==
    IF embed(v, embedOk).raised
    THEN SearchRaised("embedding failed", TRUE)
    ELSE IF ~idx.some \/ ~vs.some
    THEN SearchRaised("Index not loaded", TRUE)
    ELSE IF topk <= 0
    THEN SearchRaised("k > 0", TRUE)
    ELSE LET r == IndexSearch(ranking, topk) IN
         IF \E j \in 1..topk : ~PyInRange(vs.recs, r.I[j])
         THEN SearchRaised("IndexError", TRUE)
         ELSE [raised |-> FALSE, error |-> "",
               pairs |-> [j \in 1..topk |->
                            [verse |-> PyIndex(vs.recs, r.I[j]), score |-> r.D[j]]],
               embed_called |-> TRUE]

\* search(query, topk): the (verse, score) pairs, or the exception raised.
search(v, idx, vs, embedOk, ranking, topk) ==
    IF ~idx.some \/ ~vs.some
    THEN SearchRaised("Index not loaded", FALSE)
    ELSE IF embed(v, embedOk).raised
    THEN SearchRaised("embedding failed", TRUE)
    ELSE IF topk <= 0
    THEN SearchRaised("k > 0", TRUE)
    ELSE LET r == IndexSearch(ranking, topk) IN
         IF \E j \in 1..topk : ~PyInRange(vs.recs, r.I[j])
         THEN SearchRaised("IndexError", TRUE)
         ELSE [raised |-> FALSE, error |-> "",
               pairs |-> [j \in 1..topk |->
                            [verse |-> PyIndex(vs.recs, r.I[j]), score |-> r.D[j]]],
               embed_called |-> TRUE]

\* ------------------------------------------------------ should_trigger_quiz
\* A state created for every key at once.
QuizInitAll(v, qs, s) ==
    [t \in DOMAIN qs \cup {"s1", "s2"} |->
        IF t \in DOMAIN qs THEN qs[t]
        ELSE [message_count |-> 0, last_quiz_at |-> 0,
              quiz_frequency |-> QuizFrequency(v)]]

\* 'if session_id not in user_quiz_states: user_quiz_states[session_id] = {...}'
QuizInit(v, qs, s) ==
    IF s \in DOMAIN qs THEN qs
    ELSE qs @@ (s :> [message_count |-> 0, last_quiz_at |-> 0,
                      quiz_frequency |-> QuizFrequency(v)])

\* The count raised by two.
QuizIncrTwice(qs, s) == [qs EXCEPT ![s].message_count = @ + 2]

\* state['message_count'] += 1
QuizIncr(qs, s) == [qs EXCEPT ![s].message_count = @ + 1]

\* The comparison with > in place of >=.
QuizDueAfter(qs, s) ==
    qs[s].message_count - qs[s].last_quiz_at > qs[s].quiz_frequency

\* state['message_count'] - state['last_quiz_at'] >= state['quiz_frequency']
QuizDue(qs, s) ==
    qs[s].message_count - qs[s].last_quiz_at >= qs[s].quiz_frequency

\* The reset left out.
QuizResetKeep(qs, s) == qs

\* state['last_quiz_at'] = state['message_count']
QuizReset(qs, s) == [qs EXCEPT ![s].last_quiz_at = qs[s].message_count]

\* The second half of should_trigger_quiz, after the increment.
QuizDecide(qs, s) ==
    IF QuizDue(qs, s) THEN [states |-> QuizReset(qs, s), ret |-> TRUE]
    ELSE [states |-> qs, ret |-> FALSE]

should_trigger_quiz(v, qs, s) == QuizDecide(QuizIncr(QuizInit(v, qs, s), s), s)

\* ------------------------------------------------------------------- texts
\* The canned introduction of each application.
IntroText(v) == "intro:" \o v

\* What the chat completion returns when it succeeds.
LlmAnswer == "llm answer"

\* The except-branch answer of samaveda, yajurveda and atharvaveda: it quotes
\* the query.
FallbackAnswer(v, q) == "fallback:" \o v \o ":" \o q

\* The two context strings used when no verse was retrieved.
NotLoadedContext(v) == "General " \o v \o " knowledge without specific verse references"
SearchUnavailableContext(v) == "General " \o v \o " knowledge (database search unavailable)"

\* The citation block built from the retrieved verses, one line per verse.
RECURSIVE VerseContext(_)
VerseContext(pairs) ==
    IF pairs = <<>> THEN ""
    ELSE "V " \o ToString(Head(pairs).verse.row) \o ": " \o Head(pairs).verse.text_sa
         \o "\n" \o VerseContext(Tail(pairs))

Msg(sender, text) == [sender |-> sender, text |-> text]

\* [r for r, _ in results]
VersesOf(pairs) == [j \in 1..Len(pairs) |-> pairs[j].verse]

\* ----------------------------------------------------------------------- ask
\* 'if session_id and session_id not in conversations: conversations[...] = []'
InitConversation(convs, s) ==
    IF Truthy(s) /\ s \notin DOMAIN convs THEN convs @@ (s :> <<>>) ELSE convs

\* Step 5 with the two appends in the other order.
TrackExchangeSwapped(v, convs, qs, s, q, answer) ==
    IF Truthy(s)
    THEN LET t == should_trigger_quiz(v, qs, s) IN
         [conversations |->
              [convs EXCEPT ![s] = Append(Append(@, Msg("bot", answer)), Msg("user", q))],
          user_quiz_states |-> t.states,
          quiz_triggered |-> t.ret]
    ELSE [conversations |-> convs, user_quiz_states |-> qs, quiz_triggered |-> FALSE]

\* Step 5 of ask: the two appends and the quiz check, skipped for a falsy id.
TrackExchange(v, convs, qs, s, q, answer) ==
    IF Truthy(s)
    THEN LET t == should_trigger_quiz(v, qs, s) IN
         [conversations |->
              [convs EXCEPT ![s] = Append(Append(@, Msg("user", q)), Msg("bot", answer))],
          user_quiz_states |-> t.states,
          quiz_triggered |-> t.ret]
    ELSE [conversations |-> convs, user_quiz_states |-> qs, quiz_triggered |-> FALSE]

\* What ask returns or raises, the two dicts as it leaves them, and what it
\* did on the way: the context string of the prompt, how retrieval ended
\* ("none": not attempted, "ok", "not_loaded", "raised") and what was called.
AskResult(raised, answer, vlist, trig, convs, qs, context, retrieval, embedCalled, llmCalled, llmFailed) ==
    [raised |-> raised, answer |-> answer, verses |-> vlist, quiz_triggered |-> trig,
     conversations |-> convs, user_quiz_states |-> qs, context |-> context,
     retrieval |-> retrieval, embed_called |-> embedCalled, llm_called |-> llmCalled,
     llm_failed |-> llmFailed]

\* The introduction with the session bookkeeping run first, for "default".
AskIntroTracked(v, convs, qs) ==
    AskResult(FALSE, IntroText(v), <<>>, FALSE, InitConversation(convs, "default"), qs,
              "", "none", FALSE, FALSE, FALSE)

AskIntro(v, convs, qs) ==
    AskResult(FALSE, IntroText(v), <<>>, FALSE, convs, qs, "", "none", FALSE, FALSE, FALSE)

\* rigveda_app.ask with the user message appended before the completion is
\* requested, and the assistant message after it.
AskRigvedaEarlyAppend(v, idx, vs, convs, qs, q, topk, s, embedOk, ranking, llmOk) ==
    LET c1 == InitConversation(convs, s)
        c2 == IF Truthy(s) THEN [c1 EXCEPT ![s] = Append(@, Msg("user", q))] ELSE c1
        sr == search(v, idx, vs, embedOk, ranking, topk)
    IN  IF sr.raised
        THEN AskResult(TRUE, "", <<>>, FALSE, c1, qs, "",
                       IF sr.error = "Index not loaded" THEN "not_loaded" ELSE "raised",
                       sr.embed_called, FALSE, FALSE)
        ELSE IF ~llmOk
        THEN AskResult(TRUE, "", <<>>, FALSE, c2, qs, VerseContext(sr.pairs), "ok",
                       sr.embed_called, TRUE, TRUE)
        ELSE LET t == TrackExchange(v, c1, qs, s, q, LlmAnswer) IN
             AskResult(FALSE, LlmAnswer, VersesOf(sr.pairs), t.quiz_triggered,
                       t.conversations, t.user_quiz_states, VerseContext(sr.pairs),
                       "ok", sr.embed_called, TRUE, FALSE)

\* rigveda_app.ask with should_trigger_quiz called before the completion is
\* requested.
AskRigvedaEarlyCount(v, idx, vs, convs, qs, q, topk, s, embedOk, ranking, llmOk) ==
    LET c1 == InitConversation(convs, s)
        sr == search(v, idx, vs, embedOk, ranking, topk)
        t  == TrackExchange(v, c1, qs, s, q, LlmAnswer)
    IN  IF sr.raised
        THEN AskResult(TRUE, "", <<>>, FALSE, c1, qs, "",
                       IF sr.error = "Index not loaded" THEN "not_loaded" ELSE "raised",
                       sr.embed_called, FALSE, FALSE)
        ELSE IF ~llmOk
        THEN AskResult(TRUE, "", <<>>, FALSE, c1, t.user_quiz_states,
                       VerseContext(sr.pairs), "ok", sr.embed_called, TRUE, TRUE)
        ELSE AskResult(FALSE, LlmAnswer, VersesOf(sr.pairs), t.quiz_triggered,
                       t.conversations, t.user_quiz_states, VerseContext(sr.pairs),
                       "ok", sr.embed_called, TRUE, FALSE)

\* rigveda_app.ask after the intro test: search and the chat completion are
\* called outside any try, so their exceptions leave ask.
AskRigveda(v, idx, vs, convs, qs, q, topk, s, embedOk, ranking, llmOk) ==
    LET c1 == InitConversation(convs, s)
        sr == search(v, idx, vs, embedOk, ranking, topk)
    IN  IF sr.raised
        THEN AskResult(TRUE, "", <<>>, FALSE, c1, qs, "",
                       IF sr.error = "Index not loaded" THEN "not_loaded" ELSE "raised",
                       sr.embed_called, FALSE, FALSE)
        ELSE IF ~llmOk
        THEN AskResult(TRUE, "", <<>>, FALSE, c1, qs, VerseContext(sr.pairs), "ok",
                       sr.embed_called, TRUE, TRUE)
        ELSE LET t == TrackExchange(v, c1, qs, s, q, LlmAnswer) IN
             AskResult(FALSE, LlmAnswer, VersesOf(sr.pairs), t.quiz_triggered,
                       t.conversations, t.user_quiz_states, VerseContext(sr.pairs),
                       "ok", sr.embed_called, TRUE, FALSE)

\* ask of samaveda, yajurveda and atharvaveda after the intro test.
AskHardened(v, idx, vs, convs, qs, q, topk, s, embedOk, ranking, llmOk) ==
    LET c1 == InitConversation(convs, s)
        loaded == idx.some /\ vs.some
        sr == search(v, idx, vs, embedOk, ranking, topk)
        pairs == IF loaded /\ ~sr.raised THEN sr.pairs ELSE <<>>
        context == IF ~loaded THEN NotLoadedContext(v)
                   ELSE IF sr.raised THEN SearchUnavailableContext(v)
                   ELSE VerseContext(sr.pairs)
        retrieval == IF ~loaded THEN "not_loaded"
                     ELSE IF sr.raised THEN "raised" ELSE "ok"
        answer == IF llmOk THEN LlmAnswer ELSE FallbackAnswer(v, q)
        t == TrackExchange(v, c1, qs, s, q, answer)
    IN  AskResult(FALSE, answer, VersesOf(pairs), t.quiz_triggered,
                  t.conversations, t.user_quiz_states, context, retrieval,
                  loaded /\ sr.embed_called, TRUE, ~llmOk)

\* ask with the quiz check also run for an introduction.
askCountingIntro(v, idx, vs, convs, qs, q, topk, is_intro, s, embedOk, ranking, llmOk) ==
    IF is_intro
    THEN AskIntro(v, convs, TrackExchange(v, InitConversation(convs, s), qs, s, q,
                                          IntroText(v)).user_quiz_states)
    ELSE IF v = "rigveda"
    THEN AskRigveda(v, idx, vs, convs, qs, q, topk, s, embedOk, ranking, llmOk)
    ELSE AskHardened(v, idx, vs, convs, qs, q, topk, s, embedOk, ranking, llmOk)

ask(v, idx, vs, convs, qs, q, topk, is_intro, s, embedOk, ranking, llmOk) ==
    IF is_intro THEN AskIntro(v, convs, qs)
    ELSE IF v = "rigveda"
    THEN AskRigveda(v, idx, vs, convs, qs, q, topk, s, embedOk, ranking, llmOk)
    ELSE AskHardened(v, idx, vs, convs, qs, q, topk, s, embedOk, ranking, llmOk)

\* ------------------------------------------------------------------ responses
NoResponse ==
    [op |-> "none", status |-> 0, session_id |-> "", query |-> "",
     is_intro |-> FALSE, answer |-> "", verses |-> <<>>,
     quiz_triggered |-> FALSE, context |-> "", retrieval |-> "none",
     embed_called |-> FALSE, embed_failed |-> FALSE,
     llm_called |-> FALSE, llm_failed |-> FALSE,
     topk |-> 0, error |-> "", labels |-> <<>>, pairs |-> <<>>,
     topics |-> <<>>, quiz |-> <<>>,
     history_len |-> 0, topics_reply |-> [ok |-> FALSE, entries |-> <<>>],
     quiz_reply |-> [ok |-> FALSE, is_dict |-> FALSE, has_questions |-> FALSE,
                     is_list |-> FALSE, questions |-> <<>>],
     answers |-> <<>>, app |-> "",
     score |-> 0, total |-> 0, percentage |-> [num |-> 0, den |-> 1],
     results |-> <<>>,
     database_loaded |-> FALSE, total_verses |-> 0, active_conversations |-> 0]

\* The body of an error response: only the status matters here.
ErrorResponse(op, status, s, q, is_intro) ==
    [NoResponse EXCEPT !.op = op, !.status = status, !.session_id = s,
                       !.query = q, !.is_intro = is_intro]

\* The verse references api_ask sends back for one verse record.
VerseInfo(rec) == [row |-> rec.row, text_sa |-> rec.text_sa]

\* api_ask: validation, then ask inside the handler's try.  The result holds
\* the response and the two dicts as the handler leaves them.
api_ask(v, idx, vs, convs, qs, q, topk, is_intro, s, embedOk, ranking, llmOk) ==
    IF q = "" /\ ~is_intro
    THEN [response |-> ErrorResponse("ask", 400, s, q, is_intro),
          conversations |-> convs, user_quiz_states |-> qs]
    ELSE IF v = "rigveda" /\ ~is_intro /\ (~idx.some \/ ~vs.some)
    THEN [response |-> [ErrorResponse("ask", 500, s, q, is_intro) EXCEPT
                            !.retrieval = "not_loaded"],
          conversations |-> convs, user_quiz_states |-> qs]
    ELSE LET a == ask(v, idx, vs, convs, qs, q, topk, is_intro, s, embedOk, ranking, llmOk)
         IN  [response |->
                 IF a.raised
                 THEN [ErrorResponse("ask", 500, s, q, is_intro) EXCEPT
                          !.context = a.context, !.retrieval = a.retrieval,
                          !.embed_called = a.embed_called,
                          !.llm_called = a.llm_called, !.llm_failed = a.llm_failed]
                 ELSE [ErrorResponse("ask", 200, s, q, is_intro) EXCEPT
                          !.answer = a.answer,
                          !.verses = [j \in 1..Len(a.verses) |-> VerseInfo(a.verses[j])],
                          !.quiz_triggered = a.quiz_triggered, !.context = a.context,
                          !.retrieval = a.retrieval, !.embed_called = a.embed_called,
                          !.llm_called = a.llm_called, !.llm_failed = a.llm_failed],
              conversations |-> a.conversations,
              user_quiz_states |-> a.user_quiz_states]

\* ------------------------------------------- topics, quiz generation, grading
DefaultTopics(v) ==
    IF v = "rigveda" THEN <<"General Rigveda Knowledge">>
    ELSE IF v = "samaveda" THEN <<"sacred chanting", "musical notation", "soma rituals">>
    ELSE IF v = "yajurveda" THEN <<"ritual procedures", "sacred mantras", "fire ceremonies">>
    ELSE <<"healing practices", "protective charms", "daily rituals">>

\* str.strip() on the entries a completion is made of.
Strip(e) == IF e = " Agni " THEN "Agni" ELSE IF e = " " THEN "" ELSE e

\* The list returned whole.
FirstAll(seq) == seq

\* topics[:5]
FirstFive(seq) == SubSeq(seq, 1, IF Len(seq) < 5 THEN Len(seq) ELSE 5)

NonEmpty(e) == e # ""

\* The test for an empty history only.
ExtractSkipsModelIfEmpty(history) == Len(history) = 0

\* 'if not conversation_history or len(conversation_history) < 2': the
\* default is returned before the completion is requested.
ExtractSkipsModel(history) == Len(history) < 2

\* extract_topics_from_conversation: reply.ok is whether the completion
\* succeeded, reply.entries its text split on commas.
extract_topics_from_conversation(v, history, reply) ==
    IF ExtractSkipsModel(history) THEN DefaultTopics(v)
    ELSE IF ~reply.ok THEN DefaultTopics(v)
    ELSE LET topics == SelectSeq([j \in 1..Len(reply.entries) |-> Strip(reply.entries[j])],
                                 NonEmpty)
         IN  IF topics = <<>> THEN DefaultTopics(v) ELSE FirstFive(topics)

OptionKeys == {"A", "B", "C", "D"}

Question(text, correct) ==
    [is_dict |-> TRUE,
     keys |-> {"question", "options", "correct_answer", "explanation"},
     question |-> text, options |-> OptionKeys, correct_answer |-> correct,
     explanation |-> "because"]

\* The quiz of the except branch of generate_mcq_quiz.
FallbackQuiz(v) ==
    IF v = "rigveda" THEN <<Question("fallback 1", "A")>>
    ELSE IF v = "atharvaveda"
    THEN <<Question("fallback 1", "B"), Question("fallback 2", "B"), Question("fallback 3", "B")>>
    ELSE <<Question("fallback 1", "B"), Question("fallback 2", "B"), Question("fallback 3", "C")>>

\* generate_mcq_quiz without the test for an empty list.
generate_mcq_quiz_any_list(v, topics, reply) ==
    IF ~reply.ok THEN FallbackQuiz(v)
    ELSE IF ~reply.is_dict \/ ~reply.has_questions THEN FallbackQuiz(v)
    ELSE IF ~reply.is_list THEN FallbackQuiz(v)
    ELSE reply.questions

\* generate_mcq_quiz: reply.ok is whether the completion succeeded and
\* parsed as JSON, reply.is_dict, reply.has_questions and reply.is_list what
\* the validation reads, reply.questions the list.  The value returned is the
\* 'questions' list of the quiz.
generate_mcq_quiz(v, topics, reply) ==
    IF ~reply.ok THEN FallbackQuiz(v)
    ELSE IF ~reply.is_dict \/ ~reply.has_questions THEN FallbackQuiz(v)
    ELSE IF ~reply.is_list \/ Len(reply.questions) = 0 THEN FallbackQuiz(v)
    ELSE reply.questions

\* A default conversation of the question alone.
SeedConversationShort(v) == <<Msg("user", "seed question:" \o v)>>

\* The default conversation api_generate_quiz stores for an unseen session.
SeedConversation(v) ==
    <<Msg("user", "seed question:" \o v), Msg("bot", "seed answer:" \o v)>>

\* The handler storing the default conversation whether or not the session
\* is known.
api_generate_quiz_reseeding(v, convs, s, topicsReply, quizReply) ==
    LET c1 == [t \in DOMAIN convs \cup {s} |->
                  IF t = s THEN SeedConversation(v) ELSE convs[t]]
        history == c1[s]
        topics == extract_topics_from_conversation(v, history, topicsReply)
        quiz == generate_mcq_quiz(v, topics, quizReply)
    IN  [response |->
            [ErrorResponse("generate_quiz", 200, s, "", FALSE) EXCEPT
                !.topics = topics, !.quiz = quiz, !.llm_called = TRUE,
                !.history_len = Len(history)],
         conversations |-> c1]

\* api_generate_quiz: the response and conversations as the handler leaves it.
\* history_len records the length of the transcript the topics were drawn from.
api_generate_quiz(v, convs, s, topicsReply, quizReply) ==
    LET c1 == IF s \in DOMAIN convs THEN convs ELSE convs @@ (s :> SeedConversation(v))
        history == c1[s]
        topics == extract_topics_from_conversation(v, history, topicsReply)
        quiz == generate_mcq_quiz(v, topics, quizReply)
    IN  IF v = "rigveda" /\ history = <<>>
        THEN [response |->
                 [ErrorResponse("generate_quiz", 400, s, "", FALSE) EXCEPT
                     !.error = "Conversation history is empty"],
              conversations |-> c1]
        ELSE [response |->
                 [ErrorResponse("generate_quiz", 200, s, "", FALSE) EXCEPT
                     !.topics = topics, !.quiz = quiz, !.llm_called = TRUE,
                     !.history_len = Len(history)],
              conversations |-> c1]

\* rigveda_api_generate_quiz of vedas_main_app, on the conversations dict of
\* rigveda_app: an unseen session is refused, nothing is stored.
rigveda_api_generate_quiz(convs, s, topicsReply, quizReply) ==
    IF s \notin DOMAIN convs
    THEN [response |->
             [ErrorResponse("main_generate_quiz", 400, s, "", FALSE) EXCEPT
                 !.error = "No conversation history found"],
          conversations |-> convs]
    ELSE LET topics == extract_topics_from_conversation("rigveda", convs[s], topicsReply)
             quiz == generate_mcq_quiz("rigveda", topics, quizReply)
         IN  [response |->
                 [ErrorResponse("main_generate_quiz", 200, s, "", FALSE) EXCEPT
                     !.topics = topics, !.quiz = quiz, !.llm_called = TRUE,
                     !.history_len = Len(convs[s])],
              conversations |-> convs]

\* answers.get(str(i)) for 0-based position i; "" stands for None.
AnswerAt(answers, i) == IF i \in DOMAIN answers THEN answers[i] ELSE ""

\* The comparison made after folding the submitted letter to upper case.
GradedResultIgnoringCase(question, user_answer) ==
    [question |-> question.question, user_answer |-> user_answer,
     correct_answer |-> question.correct_answer,
     is_correct |-> ((IF user_answer = "a" THEN "A" ELSE user_answer)
                         = question.correct_answer),
     explanation |-> question.explanation]

GradedResult(question, user_answer) ==
    [question |-> question.question, user_answer |-> user_answer,
     correct_answer |-> question.correct_answer,
     is_correct |-> (user_answer = question.correct_answer),
     explanation |-> question.explanation]

RECURSIVE CountCorrect(_)
CountCorrect(results) ==
    IF results = <<>> THEN 0
    ELSE (IF Head(results).is_correct THEN 1 ELSE 0) + CountCorrect(Tail(results))

\* A reported percentage, as the fraction num / den.
Percentage(num, den) == [num |-> num, den |-> den]

\* The tenths of a percent in score_percentage, the rest cut off.
PercentageTenthsTruncated(correct, total) ==
    IF total > 0 THEN (1000 * correct) \div total ELSE 0

\* round(correct_count / total_questions * 100, 1), in tenths of a percent.
\* A tie between two tenths needs a total that is a multiple of 16.
PercentageTenths(correct, total) ==
    IF total > 0 THEN (2000 * correct + total) \div (2 * total) ELSE 0

\* The first position of a question the validation in the loop refuses, 0 if
\* there is none.
FirstRefused(questions) ==
    LET bad == { j \in 1..Len(questions) :
                   ~questions[j].is_dict \/ "correct_answer" \notin questions[j].keys }
    IN  IF bad = {} THEN 0 ELSE CHOOSE j \in bad : \A k \in bad : j <= k

\* api_submit_quiz of the four applications.
api_submit_quiz(s, questions, answers) ==
    IF questions = <<>>
    THEN [ErrorResponse("submit_quiz", 400, s, "", FALSE) EXCEPT
             !.error = "No quiz questions provided"]
    ELSE IF FirstRefused(questions) # 0
    THEN [ErrorResponse("submit_quiz", 400, s, "", FALSE) EXCEPT
             !.error = IF ~questions[FirstRefused(questions)].is_dict
                       THEN "Question has invalid format"
                       ELSE "Question missing correct_answer"]
    ELSE LET results == [j \in 1..Len(questions) |->
                            GradedResult(questions[j], AnswerAt(answers, j - 1))]
         IN  [ErrorResponse("submit_quiz", 200, s, "", FALSE) EXCEPT
                 !.score = CountCorrect(results), !.total = Len(questions),
                 !.percentage = Percentage(
                     PercentageTenths(CountCorrect(results), Len(questions)), 10),
                 !.results = results]

\* rigveda_api_submit_quiz of vedas_main_app: the same loop with no validation;
\* question['correct_answer'], question['question'] and question['explanation']
\* raise on a question without the key or on a string, and the except answers
\* 500.  The percentage is sent as computed, not rounded.
rigveda_api_submit_quiz(s, questions, answers) ==
    IF \E j \in 1..Len(questions) :
          \/ ~questions[j].is_dict
          \/ ~({"correct_answer", "question", "explanation"} \subseteq questions[j].keys)
    THEN [ErrorResponse("main_submit_quiz", 500, s, "", FALSE) EXCEPT
             !.error = "Quiz submission failed."]
    ELSE LET results == [j \in 1..Len(questions) |->
                            GradedResult(questions[j], AnswerAt(answers, j - 1))]
             correct == CountCorrect(results)
         IN  [ErrorResponse("main_submit_quiz", 200, s, "", FALSE) EXCEPT
                 !.score = correct, !.total = Len(questions),
                 !.percentage = IF Len(questions) > 0
                                THEN Percentage(100 * correct, Len(questions))
                                ELSE Percentage(0, 1),
                 !.results = results]

\* health_check counting the sessions that hold a message.
health_check_non_empty(idx, vs, convs) ==
    [ErrorResponse("health", 200, "", "", FALSE) EXCEPT
        !.database_loaded = (idx.some /\ vs.some),
        !.total_verses = (IF vs.some THEN Len(vs.recs) ELSE 0),
        !.active_conversations = Cardinality({s \in DOMAIN convs : convs[s] # <<>>})]

\* health_check
health_check(idx, vs, convs) ==
    [ErrorResponse("health", 200, "", "", FALSE) EXCEPT
        !.database_loaded = (idx.some /\ vs.some),
        !.total_verses = (IF vs.some THEN Len(vs.recs) ELSE 0),
        !.active_conversations = Cardinality(DOMAIN convs)]

\* ------------------------------------------------------------ request threads
\* The development server of app.run answers each request in a thread of its
\* own, and no handler takes a lock.
Threads == {1, 2}

\* No request in progress: every thread idle, no quiz-state object created.
\* call is the number of the ask a thread is answering, state and tmp its
\* locals in should_trigger_quiz; heap holds the quiz-state dicts created so
\* far and live is the one user_quiz_states[session_id] refers to (0: none).
NoThreads ==
    [pc |-> [t \in Threads |-> "idle"],
     call |-> [t \in Threads |-> 0],
     state |-> [t \in Threads |-> 0],
     tmp |-> [t \in Threads |-> 0],
     heap |-> <<>>, live |-> 0,
     started |-> 0, done |-> 0, trues |-> 0, seeds |-> 0]

\* The state after the module is imported: load_data has run on the files
\* it found, and the dicts are empty.
InitOf(vedas, metaStates) ==
    /\ veda \in vedas
    /\ \E fs \in FileSystems(veda, metaStates) :
          /\ index = load_data(veda, fs).index
          /\ verses = load_data(veda, fs).verses
    /\ conversations = <<>>
    /\ user_quiz_states = <<>>
    /\ response = NoResponse
    /\ triggerLog = [s \in SessionIds |-> <<>>]
    /\ evalPc = [at |-> "idle", sid |-> ""]
    /\ apps = <<>>
    /\ threads = NoThreads

Init == InitOf(Vedas, MetaFileStates)

\* --------------------------------------------------------------- the actions
\* Rankings an ask draws from: rows in ascending or in descending order, the
\* best row scoring MaxScore and the others 1.
AskRankings ==
    { r \in Rankings(MaxRows) :
        /\ r[1].score = MaxScore
        /\ \A i \in 2..MaxRows : r[i].score = 1
        /\ \/ \A i \in 1..MaxRows : r[i].row = i - 1
           \/ \A i \in 1..MaxRows : r[i].row = MaxRows - i }

\* Exchanges recorded so far, over all sessions.
RECURSIVE SumLen(_, _)
SumLen(f, S) ==
    IF S = {} THEN 0
    ELSE LET x == CHOOSE y \in S : TRUE IN Len(f[x]) + SumLen(f, S \ {x})

Answered == SumLen(triggerLog, SessionIds)

\* A run records one quiz period of exchanges and MaxMore more.
MaxAsks(v) == QuizFrequency(v) + MaxMore

\* The requests an ask is sent.  Inputs a request never reads are
\* fixed: an intro request reads neither topk nor the capabilities, and a
\* request with an empty query is rejected before anything is called.  Of the
\* capability outcomes, one failure is drawn at a time, or the embedding
\* succeeding with the other ranking; topk = 0 comes with a working
\* completion, and the empty session id with no failure at all.
AskInputs ==
    { i \in [s : SessionIds, q : Queries, is_intro : BOOLEAN, topk : AskTopKs,
             embedOk : BOOLEAN, llmOk : BOOLEAN, ranking : AskRankings] :
        /\ (i.is_intro \/ i.q = "") =>
              i.topk = 2 /\ i.embedOk /\ i.llmOk /\ i.ranking[1].row = 0
        /\ i.ranking[1].row # 0 => i.topk = 2 /\ i.embedOk /\ i.llmOk
        /\ ~i.embedOk => i.topk = 2 /\ i.llmOk
        /\ i.topk = 0 => i.llmOk
        /\ ~Truthy(i.s) =>
              i.topk = 2 /\ i.embedOk /\ i.llmOk /\ i.ranking[1].row = 0 /\ i.q # "" }

\* POST /api/<veda>/ask
ApiAsk ==
    \E i \in AskInputs :
      \E r \in {api_ask(veda, index, verses, conversations, user_quiz_states,
                       i.q, i.topk, i.is_intro, i.s, i.embedOk, i.ranking, i.llmOk)} :
        LET recorded == r.response.status = 200 /\ ~i.is_intro /\ Truthy(i.s)
        IN  /\ evalPc.at = "idle"
            /\ recorded => Answered < MaxAsks(veda)
            /\ conversations' = r.conversations
            /\ user_quiz_states' = r.user_quiz_states
            /\ response' = r.response
            /\ triggerLog' =
                  IF recorded
                  THEN [triggerLog EXCEPT ![i.s] = Append(@, r.response.quiz_triggered)]
                  ELSE triggerLog
            /\ UNCHANGED <<threads, apps, veda, index, verses, evalPc>>

\* Completions the topic extraction receives.
TopicReplies ==
    { [ok |-> FALSE, entries |-> <<>>],
      [ok |-> TRUE, entries |-> <<" ">>],
      [ok |-> TRUE, entries |-> <<" Agni ", "", "soma">>] }

\* Completions the quiz generation receives.
QuizReplies ==
    { [ok |-> FALSE, is_dict |-> FALSE, has_questions |-> FALSE, is_list |-> FALSE,
       questions |-> <<>>],
      [ok |-> TRUE, is_dict |-> TRUE, has_questions |-> TRUE, is_list |-> TRUE,
       questions |-> <<>>],
      [ok |-> TRUE, is_dict |-> TRUE, has_questions |-> TRUE, is_list |-> TRUE,
       questions |-> <<Question("q1", "A"), Question("q2", "C")>>] }

\* Sessions a quiz is asked for.
GenerateSessions == {"s1"}

\* The two completions of one quiz request: both fail, or the topics are
\* blank and the quiz has no question, or the topics come back and the quiz
\* fails or is well formed.
GenerateReplies ==
    { p \in [topics : TopicReplies, quiz : QuizReplies] :
        /\ ~p.topics.ok => ~p.quiz.ok
        /\ (p.topics.ok /\ Len(p.topics.entries) = 1) =>
              (p.quiz.ok /\ p.quiz.questions = <<>>)
        /\ (p.topics.ok /\ Len(p.topics.entries) > 1) =>
              (~p.quiz.ok \/ p.quiz.questions # <<>>) }

\* POST /api/<veda>/generate-quiz
ApiGenerateQuiz ==
    \E s \in GenerateSessions, p \in GenerateReplies :
      \E topicsReply \in {p.topics}, quizReply \in {p.quiz} :
      \E r \in {api_generate_quiz(veda, conversations, s, topicsReply, quizReply)} :
        /\ evalPc.at = "idle"
        /\ conversations' = r.conversations
        /\ response' = r.response
        /\ UNCHANGED <<threads, apps, veda, index, verses, user_quiz_states, triggerLog, evalPc>>

\* POST /api/rigveda/generate-quiz of vedas_main_app, which serves rigveda only
MainGenerateQuiz ==
    \E s \in GenerateSessions, p \in GenerateReplies :
      \E r \in {rigveda_api_generate_quiz(conversations, s, p.topics, p.quiz)} :
        /\ evalPc.at = "idle"
        /\ veda = "rigveda"
        /\ conversations' = r.conversations
        /\ response' = r.response
        /\ UNCHANGED <<threads, apps, veda, index, verses, user_quiz_states, triggerLog, evalPc>>

\* Quizzes and answers a submission carries.
SubmittedQuizzes ==
    { <<>>,
      <<Question("q1", "A"), Question("q2", "C")>>,
      <<Question("q1", "A"),
        [Question("q2", "C") EXCEPT !.keys = {"question", "options", "explanation"}]>> }

SubmittedAnswers == { <<>>, (0 :> "A"), (0 :> "A") @@ (1 :> "C"), (0 :> "a") @@ (1 :> "C") }

\* POST /api/<veda>/submit-quiz
ApiSubmitQuiz ==
    \E s \in {"s1"}, questions \in SubmittedQuizzes, answers \in SubmittedAnswers :
        /\ (Len(questions) < 2 \/ "correct_answer" \notin questions[2].keys) =>
              answers = <<>>
        /\ evalPc.at = "idle"
        /\ response' = api_submit_quiz(s, questions, answers)
        /\ UNCHANGED <<threads, apps, veda, index, verses, conversations, user_quiz_states,
                       triggerLog, evalPc>>

\* GET /api/health
HealthCheck ==
    /\ evalPc.at = "idle"
    /\ response' = health_check(index, verses, conversations)
    /\ UNCHANGED <<threads, apps, veda, index, verses, conversations, user_quiz_states,
                   triggerLog, evalPc>>

Next == ApiAsk \/ ApiGenerateQuiz \/ MainGenerateQuiz \/ ApiSubmitQuiz \/ HealthCheck

Spec == Init /\ [][Next]_vars

\* ------------------------------------------- should_trigger_quiz on its own
\* A run of calls of should_trigger_quiz, each in two steps: up to the
\* increment, then the comparison and the return.
InitTrigger == InitOf(Vedas, MetaFileStates)

TriggerEnter ==
    \E s \in SessionIds :
        /\ evalPc.at = "idle"
        /\ Len(triggerLog[s]) < MaxCalls
        /\ user_quiz_states' = QuizIncr(QuizInit(veda, user_quiz_states, s), s)
        /\ evalPc' = [at |-> "check", sid |-> s]
        /\ UNCHANGED <<threads, apps, veda, index, verses, conversations, response, triggerLog>>

TriggerReturn ==
    /\ evalPc.at = "check"
    /\ \E d \in {QuizDecide(user_quiz_states, evalPc.sid)} :
          /\ user_quiz_states' = d.states
          /\ triggerLog' = [triggerLog EXCEPT ![evalPc.sid] = Append(@, d.ret)]
    /\ evalPc' = [at |-> "idle", sid |-> ""]
    /\ UNCHANGED <<threads, apps, veda, index, verses, conversations, response>>

NextTrigger == TriggerEnter \/ TriggerReturn

SpecTrigger == InitTrigger /\ [][NextTrigger]_vars

\* ------------------------------------------------------- search on its own
InitSearch == InitOf(Vedas, MetaFileStatesShort)

\* search(query, topk) called with any topk from 0 to one more than the rows.
Search ==
    \E topk \in 0..(MaxRows + 1), embedOk \in BOOLEAN, ranking \in Rankings(MaxRows) :
      \E r \in {search(veda, index, verses, embedOk, ranking, topk)} :
        /\ response' = [NoResponse EXCEPT
                           !.op = "search",
                           !.status = IF r.raised THEN 500 ELSE 200,
                           !.topk = topk,
                           !.error = r.error,
                           !.labels = IF r.raised THEN <<>>
                                      ELSE IndexSearch(ranking, topk).I,
                           !.pairs = r.pairs,
                           !.embed_called = r.embed_called,
                           !.embed_failed = (r.embed_called /\ ~embedOk)]
        /\ UNCHANGED <<threads, apps, veda, index, verses, conversations, user_quiz_states,
                       triggerLog, evalPc>>

NextSearch == Search

SpecSearch == InitSearch /\ [][NextSearch]_vars

\* search applied once to a query, from each state load_data can leave.
SearchOnce ==
    /\ response = NoResponse
    /\ Search

SpecSearchOnce == InitSearch /\ [][SearchOnce]_vars

\* ----------------------------------------------- the service after startup
\* Health and search requests on whatever load_data left, the metadata file
\* possibly holding fewer records than the index has rows.
NextStartup == HealthCheck \/ Search

SpecStartup == InitSearch /\ [][NextStartup]_vars

\* --------------------------------- topic extraction and quiz generation alone
\* The two functions applied once to an input, from the state after start-up.
\* A transcript of n messages, user and bot in turn.
HistoryOf(n) == [j \in 1..n |-> Msg(IF j % 2 = 1 THEN "user" ELSE "bot", "text")]

\* What one comma-separated entry of a completion can be: a topic with blanks
\* around it, blanks only, or a bare topic.
TopicEntries == {" Agni ", " ", "soma"}

\* Every outcome of the topic completion: a failure, or a text of 1 to
\* MaxEntries entries.
TopicRepliesAll ==
    {[ok |-> FALSE, entries |-> <<>>]} \cup
    { [ok |-> TRUE, entries |-> e] :
        e \in UNION { [1..n -> TopicEntries] : n \in 1..MaxEntries } }

ExtractTopics ==
    /\ response = NoResponse
    /\ \E n \in 0..3, reply \in TopicRepliesAll :
        /\ response' = [NoResponse EXCEPT
              !.op = "extract",
              !.history_len = n,
              !.topics_reply = reply,
              !.llm_called = ~ExtractSkipsModel(HistoryOf(n)),
              !.topics = extract_topics_from_conversation(veda, HistoryOf(n), reply)]
        /\ UNCHANGED <<threads, apps, veda, index, verses, conversations, user_quiz_states,
                       triggerLog, evalPc>>

\* Elements a 'questions' list of a completion can hold: two well-formed
\* questions, and questions without correct_answer, without explanation, with
\* three options, with an answer that is no option, and a string.
QuestionSamples ==
    { Question("q1", "A"), Question("q2", "C"),
      [Question("q3", "") EXCEPT !.keys = {"question", "options", "explanation"}],
      [Question("q4", "B") EXCEPT !.keys = {"question", "options", "correct_answer"},
                                  !.explanation = ""],
      [Question("q5", "A") EXCEPT !.options = {"A", "B", "C"}],
      [Question("q6", "Z") EXCEPT !.correct_answer = "Z"],
      [Question("", "") EXCEPT !.is_dict = FALSE, !.keys = {}, !.options = {},
                               !.explanation = ""] }

\* Every outcome of the quiz completion.
QuizRepliesAll ==
    { [ok |-> FALSE, is_dict |-> FALSE, has_questions |-> FALSE, is_list |-> FALSE,
       questions |-> <<>>],
      [ok |-> TRUE, is_dict |-> FALSE, has_questions |-> FALSE, is_list |-> FALSE,
       questions |-> <<>>],
      [ok |-> TRUE, is_dict |-> TRUE, has_questions |-> FALSE, is_list |-> FALSE,
       questions |-> <<>>],
      [ok |-> TRUE, is_dict |-> TRUE, has_questions |-> TRUE, is_list |-> FALSE,
       questions |-> <<>>] } \cup
    { [ok |-> TRUE, is_dict |-> TRUE, has_questions |-> TRUE, is_list |-> TRUE,
       questions |-> qs] :
        qs \in UNION { [1..n -> QuestionSamples] : n \in 0..MaxQuestions } }

\* Topic lists generate_mcq_quiz is called with.
TopicLists == { <<>>, <<"Agni">>, <<"Agni", "soma">> }

GenerateQuiz ==
    /\ response = NoResponse
    /\ \E topics \in TopicLists, reply \in QuizRepliesAll :
        /\ response' = [NoResponse EXCEPT
              !.op = "generate",
              !.topics = topics,
              !.quiz_reply = reply,
              !.llm_called = TRUE,
              !.quiz = generate_mcq_quiz(veda, topics, reply)]
        /\ UNCHANGED <<threads, apps, veda, index, verses, conversations, user_quiz_states,
                       triggerLog, evalPc>>

NextQuiz == ExtractTopics \/ GenerateQuiz

SpecQuiz == Init /\ [][NextQuiz]_vars

\* ------------------------------------------- a generated quiz handed back
\* generate_mcq_quiz applied to a completion, then the quiz it returned
\* submitted as it is to api_submit_quiz of the same application.
SubmitGenerated ==
    /\ response.op = "generate"
    /\ \E answers \in SubmittedAnswers :
        /\ response' = [api_submit_quiz("s1", response.quiz, answers) EXCEPT
                           !.quiz = response.quiz, !.answers = answers]
        /\ UNCHANGED <<threads, apps, veda, index, verses, conversations,
                       user_quiz_states, triggerLog, evalPc>>

NextRoundTrip == GenerateQuiz \/ SubmitGenerated

SpecRoundTrip == Init /\ [][NextRoundTrip]_vars

\* ----------------------------------------------------------- grading alone
\* The two submit handlers applied once to a quiz and an answers mapping.
InitGrade == InitOf({"rigveda"}, MetaFileStates)

\* Elements of a submitted quiz_questions list: well-formed questions with
\* each of three correct letters, a question without correct_answer, and a
\* string.
GradedSamples ==
    { Question("q1", "A"), Question("q2", "B"), Question("q3", "C"),
      [Question("q4", "") EXCEPT !.keys = {"question", "options", "explanation"}],
      [Question("", "") EXCEPT !.is_dict = FALSE, !.keys = {}, !.options = {},
                               !.explanation = ""] }

GradedQuizzes == UNION { [1..n -> GradedSamples] : n \in 0..MaxQuestions }

\* The keys "0", "1", "2" of an answers mapping, and what a key can hold;
\* "-" marks a key that is not sent.
AnswerKeys == {0, 1, 2}

AnswerLetters == {"A", "B", "Z", "a"}

GradedAnswers ==
    { [k \in { k \in AnswerKeys : f[k] # "-" } |-> f[k]] :
        f \in [AnswerKeys -> AnswerLetters \cup {"-"}] }

\* POST /api/submit-quiz of rigveda_app
SubmitQuiz ==
    /\ response = NoResponse
    /\ \E questions \in GradedQuizzes, answers \in GradedAnswers :
        /\ response' = [api_submit_quiz("s1", questions, answers) EXCEPT
                           !.quiz = questions, !.answers = answers]
        /\ UNCHANGED <<threads, apps, veda, index, verses, conversations, user_quiz_states,
                       triggerLog, evalPc>>

\* POST /api/rigveda/submit-quiz of vedas_main_app
MainSubmitQuiz ==
    /\ response = NoResponse
    /\ \E questions \in GradedQuizzes, answers \in GradedAnswers :
        /\ response' = [rigveda_api_submit_quiz("s1", questions, answers) EXCEPT
                           !.quiz = questions, !.answers = answers]
        /\ UNCHANGED <<threads, apps, veda, index, verses, conversations, user_quiz_states,
                       triggerLog, evalPc>>

NextGrade == SubmitQuiz \/ MainSubmitQuiz

SpecGrade == InitGrade /\ [][NextGrade]_vars

\* ------------------------------------------- the four applications together
\* Each application is a module of its own, with its own index, verses,
\* conversations and user_quiz_states; vedas_main_app imports those of
\* rigveda_app.  Here all four have loaded their first candidate.
InitCorpora ==
    /\ veda = "rigveda"
    /\ index = SomeIndex
    /\ verses = SomeVerses("ok")
    /\ conversations = <<>>
    /\ user_quiz_states = <<>>
    /\ response = NoResponse
    /\ triggerLog = [s \in SessionIds |-> <<>>]
    /\ evalPc = [at |-> "idle", sid |-> ""]
    /\ threads = NoThreads
    /\ apps = [v \in Vedas |->
                 [index |-> SomeIndex, verses |-> SomeVerses("ok"),
                  conversations |-> <<>>, user_quiz_states |-> <<>>]]

\* Messages stored by the four applications.
RECURSIVE StoredIn(_, _)
StoredIn(convs, keys) ==
    IF keys = {} THEN 0
    ELSE LET k == CHOOSE k \in keys : TRUE
         IN  Len(convs[k]) + StoredIn(convs, keys \ {k})

RECURSIVE Stored(_, _)
Stored(a, vs) ==
    IF vs = {} THEN 0
    ELSE LET v == CHOOSE v \in vs : TRUE
         IN  StoredIn(a[v].conversations, DOMAIN a[v].conversations)
                 + Stored(a, vs \ {v})

CorpusSessions == {"s1", "s2"}

\* POST /api/ask of application v, not an introduction
CorpusAsk ==
    \E v \in Vedas, s \in CorpusSessions, is_intro \in {FALSE}, embedOk \in BOOLEAN :
      \E ranking \in { r \in AskRankings : r[1].row = 0 } :
      \E r \in {api_ask(v, apps[v].index, apps[v].verses, apps[v].conversations,
                        apps[v].user_quiz_states, "fire", 2, is_intro, s,
                        embedOk, ranking, TRUE)} :
        /\ apps' = [apps EXCEPT ![v].conversations = r.conversations,
                                ![v].user_quiz_states = r.user_quiz_states]
        /\ Stored(apps', Vedas) <= 2 * MaxStored
        /\ response' = [r.response EXCEPT !.app = v]
        /\ UNCHANGED <<threads, veda, index, verses, conversations,
                       user_quiz_states, triggerLog, evalPc>>

\* The completions of a quiz request here: the topics and a well-formed quiz.
CorpusReplies ==
    { p \in GenerateReplies : p.topics.ok /\ p.quiz.ok /\ p.quiz.questions # <<>> }

\* POST /api/generate-quiz of application v
CorpusGenerateQuiz ==
    \E v \in Vedas, s \in CorpusSessions, p \in CorpusReplies :
      \E r \in {api_generate_quiz(v, apps[v].conversations, s, p.topics, p.quiz)} :
        /\ apps' = [apps EXCEPT ![v].conversations = r.conversations]
        /\ Stored(apps', Vedas) <= 2 * MaxStored
        /\ response' = [r.response EXCEPT !.app = v]
        /\ UNCHANGED <<threads, veda, index, verses, conversations,
                       user_quiz_states, triggerLog, evalPc>>

\* POST /api/rigveda/generate-quiz of vedas_main_app, on rigveda_app's dict
CorpusMainGenerateQuiz ==
    \E s \in CorpusSessions, p \in CorpusReplies :
      \E r \in {rigveda_api_generate_quiz(apps["rigveda"].conversations, s,
                                          p.topics, p.quiz)} :
        /\ apps' = [apps EXCEPT !["rigveda"].conversations = r.conversations]
        /\ response' = [r.response EXCEPT !.app = "rigveda"]
        /\ UNCHANGED <<threads, veda, index, verses, conversations,
                       user_quiz_states, triggerLog, evalPc>>

NextCorpora == CorpusAsk \/ CorpusGenerateQuiz \/ CorpusMainGenerateQuiz

SpecCorpora == InitCorpora /\ [][NextCorpora]_vars

\* ------------------------------------------- requests answered concurrently
\* Asks and quiz requests of one session, each statement that reads or writes
\* a dict taken as one step of its thread.  Retrieval and the completion
\* succeed and touch no global; the asks are numbered to tell their messages
\* apart.
RaceSession == "s1"

CallQuery(n)  == "query " \o ToString(n)
CallAnswer(n) == "answer " \o ToString(n)

InitRace ==
    /\ veda \in Vedas
    /\ index = SomeIndex
    /\ verses = SomeVerses("ok")
    /\ conversations = <<>>
    /\ user_quiz_states = <<>>
    /\ response = NoResponse
    /\ triggerLog = [s \in SessionIds |-> <<>>]
    /\ evalPc = [at |-> "idle", sid |-> ""]
    /\ apps = <<>>
    /\ threads = NoThreads

\* user_quiz_states as the heap and the live reference give it.
QuizStatesOf(th) ==
    IF th.live = 0 THEN <<>> ELSE (RaceSession :> th.heap[th.live])

\* A thread moves to pc p with the other fields of threads as in th.
Goto(th, t, p) == [th EXCEPT !.pc[t] = p]

RaceFrame == UNCHANGED <<veda, index, verses, response, triggerLog, evalPc, apps>>

\* A request for ask arrives.
StartAsk ==
    \E t \in Threads :
        /\ threads.pc[t] = "idle"
        /\ threads.started < MaxRaceAsks
        /\ threads' = [Goto(threads, t, "conv_test") EXCEPT
                          !.started = @ + 1, !.call[t] = threads.started + 1]
        /\ UNCHANGED <<conversations, user_quiz_states>>
        /\ RaceFrame

\* 'if session_id and session_id not in conversations:'
ConvTest ==
    \E t \in Threads :
        /\ threads.pc[t] = "conv_test"
        /\ threads' = Goto(threads, t,
                           IF RaceSession \in DOMAIN conversations
                           THEN "append_user" ELSE "conv_init")
        /\ UNCHANGED <<conversations, user_quiz_states>>
        /\ RaceFrame

\* 'conversations[session_id] = []'
ConvInit ==
    \E t \in Threads :
        /\ threads.pc[t] = "conv_init"
        /\ conversations' = (RaceSession :> <<>>)
        /\ threads' = Goto(threads, t, "append_user")
        /\ UNCHANGED user_quiz_states
        /\ RaceFrame

\* 'conversations[session_id].append({... 'sender': 'user' ...})'
AppendUser ==
    \E t \in Threads :
        /\ threads.pc[t] = "append_user"
        /\ conversations' = [conversations EXCEPT ![RaceSession] =
                                Append(@, Msg("user", CallQuery(threads.call[t])))]
        /\ threads' = Goto(threads, t, "append_bot")
        /\ UNCHANGED user_quiz_states
        /\ RaceFrame

\* 'conversations[session_id].append({... 'sender': 'bot' ...})'
AppendBot ==
    \E t \in Threads :
        /\ threads.pc[t] = "append_bot"
        /\ conversations' = [conversations EXCEPT ![RaceSession] =
                                Append(@, Msg("bot", CallAnswer(threads.call[t])))]
        /\ threads' = Goto(threads, t, "qs_test")
        /\ UNCHANGED user_quiz_states
        /\ RaceFrame

\* 'if session_id not in user_quiz_states:'
QsTest ==
    \E t \in Threads :
        /\ threads.pc[t] = "qs_test"
        /\ threads' = Goto(threads, t,
                           IF threads.live = 0 THEN "qs_init" ELSE "qs_fetch")
        /\ UNCHANGED <<conversations, user_quiz_states>>
        /\ RaceFrame

\* 'user_quiz_states[session_id] = {...}': a new dict takes the key.
QsInit ==
    \E t \in Threads :
        /\ threads.pc[t] = "qs_init"
        /\ threads' = [Goto(threads, t, "qs_fetch") EXCEPT
                          !.heap = Append(@, QuizInit(veda, <<>>, RaceSession)[RaceSession]),
                          !.live = Len(threads.heap) + 1]
        /\ user_quiz_states' = QuizStatesOf(threads')
        /\ UNCHANGED conversations
        /\ RaceFrame

\* 'state = user_quiz_states[session_id]'
QsFetch ==
    \E t \in Threads :
        /\ threads.pc[t] = "qs_fetch"
        /\ threads' = [Goto(threads, t, "qs_load") EXCEPT !.state[t] = threads.live]
        /\ UNCHANGED <<conversations, user_quiz_states>>
        /\ RaceFrame

\* "state['message_count'] += 1": the read
QsLoad ==
    \E t \in Threads :
        /\ threads.pc[t] = "qs_load"
        /\ threads' = [Goto(threads, t, "qs_store") EXCEPT
                          !.tmp[t] = threads.heap[threads.state[t]].message_count]
        /\ UNCHANGED <<conversations, user_quiz_states>>
        /\ RaceFrame

\* "state['message_count'] += 1": the write
QsStore ==
    \E t \in Threads :
        /\ threads.pc[t] = "qs_store"
        /\ threads' = [Goto(threads, t, "qs_cmp") EXCEPT
                          !.heap[threads.state[t]].message_count = threads.tmp[t] + 1]
        /\ user_quiz_states' = QuizStatesOf(threads')
        /\ UNCHANGED conversations
        /\ RaceFrame

\* The comparison; 'return False' ends the ask.
QsCmp ==
    \E t \in Threads :
        /\ threads.pc[t] = "qs_cmp"
        /\ threads' =
              IF QuizDue((RaceSession :> threads.heap[threads.state[t]]), RaceSession)
              THEN Goto(threads, t, "qs_reset")
              ELSE [Goto(threads, t, "idle") EXCEPT !.done = @ + 1]
        /\ UNCHANGED <<conversations, user_quiz_states>>
        /\ RaceFrame

\* "state['last_quiz_at'] = state['message_count']" and 'return True'
QsReset ==
    \E t \in Threads :
        /\ threads.pc[t] = "qs_reset"
        /\ threads' = [Goto(threads, t, "idle") EXCEPT
                          !.heap[threads.state[t]].last_quiz_at =
                              threads.heap[threads.state[t]].message_count,
                          !.done = @ + 1, !.trues = @ + 1]
        /\ user_quiz_states' = QuizStatesOf(threads')
        /\ UNCHANGED conversations
        /\ RaceFrame

\* A request for a quiz arrives while the session is not known.
StartGenerate ==
    \E t \in Threads :
        /\ threads.pc[t] = "idle"
        /\ RaceSession \notin DOMAIN conversations
        /\ threads' = Goto(threads, t, "gen_test")
        /\ UNCHANGED <<conversations, user_quiz_states>>
        /\ RaceFrame

\* 'if session_id not in conversations:' of api_generate_quiz; the rest of
\* the handler writes no global.
GenTest ==
    \E t \in Threads :
        /\ threads.pc[t] = "gen_test"
        /\ threads' = Goto(threads, t,
                           IF RaceSession \in DOMAIN conversations
                           THEN "idle" ELSE "gen_seed")
        /\ UNCHANGED <<conversations, user_quiz_states>>
        /\ RaceFrame

\* 'conversations[session_id] = [ {...}, {...} ]'
GenSeed ==
    \E t \in Threads :
        /\ threads.pc[t] = "gen_seed"
        /\ conversations' = (RaceSession :> SeedConversation(veda))
        /\ threads' = [Goto(threads, t, "idle") EXCEPT !.seeds = @ + 1]
        /\ UNCHANGED user_quiz_states
        /\ RaceFrame

NextRace ==
    \/ StartAsk \/ ConvTest \/ ConvInit \/ AppendUser \/ AppendBot
    \/ QsTest \/ QsInit \/ QsFetch \/ QsLoad \/ QsStore \/ QsCmp \/ QsReset
    \/ StartGenerate \/ GenTest \/ GenSeed

SpecRace == InitRace /\ [][NextRace]_vars

\* ================================================================ properties
\* The quiz state of session s, present or not.
HasQuizState(s) == s \in DOMAIN user_quiz_states

\* A call of should_trigger_quiz for s has incremented and not yet compared.
Evaluating(s) == evalPc.at = "check" /\ evalPc.sid = s

\* The number of the last call in log that returned true, 0 if none did.
LastTrue(log) ==
    IF \E n \in 1..Len(log) : log[n]
    THEN CHOOSE n \in 1..Len(log) : log[n] /\ \A m \in (n + 1)..Len(log) : ~log[m]
    ELSE 0

\* C1: for every session, the n-th call of should_trigger_quiz returns true
\* exactly when n is a multiple of the frequency, and between calls
\* last_quiz_at is the message_count of the most recent call that returned
\* true (0 if none has), message_count being the number of calls.
C1_EveryFthCall ==
    \A s \in SessionIds :
        /\ \A n \in 1..Len(triggerLog[s]) :
              triggerLog[s][n] = (n % QuizFrequency(veda) = 0)
        /\ (HasQuizState(s) /\ ~Evaluating(s)) =>
              /\ user_quiz_states[s].message_count = Len(triggerLog[s])
              /\ user_quiz_states[s].last_quiz_at = LastTrue(triggerLog[s])

\* Eight calls for one session of the application with frequency 4: the
\* fourth and the eighth returned true.
C1_Witness ==
    /\ veda = "rigveda"
    /\ evalPc.at = "idle"
    /\ Len(triggerLog["s1"]) = 2 * QuizFrequency(veda)
    /\ triggerLog["s1"][QuizFrequency(veda)]
    /\ triggerLog["s1"][2 * QuizFrequency(veda)]
    /\ user_quiz_states["s1"].last_quiz_at = 2 * QuizFrequency(veda)

\* C2: every quiz state has 0 <= last_quiz_at <= message_count and the
\* frequency of its application, a positive constant; and while no call is
\* between increment and comparison for the session,
\* message_count - last_quiz_at < quiz_frequency.
C2_QuizStateInvariant ==
    \A s \in DOMAIN user_quiz_states :
        LET st == user_quiz_states[s] IN
        /\ 0 <= st.last_quiz_at
        /\ st.last_quiz_at <= st.message_count
        /\ st.quiz_frequency = QuizFrequency(veda)
        /\ st.quiz_frequency > 0
        /\ ~Evaluating(s) => st.message_count - st.last_quiz_at < st.quiz_frequency

\* A session of samaveda that triggered, and was then asked again while a
\* call for another session is at its comparison with the gap at the frequency.
C2_Witness ==
    /\ veda = "samaveda"
    /\ HasQuizState("s1") /\ HasQuizState("s2")
    /\ user_quiz_states["s1"].last_quiz_at = 3
    /\ user_quiz_states["s1"].message_count = 5
    /\ Evaluating("s2")
    /\ user_quiz_states["s2"].message_count - user_quiz_states["s2"].last_quiz_at = 3

\* The transcript of session s, empty while the session does not exist.
Transcript(convs, s) == IF s \in DOMAIN convs THEN convs[s] ELSE <<>>

\* The step is a request of the named kind: every handler leaves its response.
IsAsk      == response'.op = "ask"
IsIntroAsk == IsAsk /\ response'.is_intro
\* A non-intro ask that returned an answer.
IsCompletedAsk == IsAsk /\ ~response'.is_intro /\ response'.status = 200
\* A non-intro ask that ended in an error response.
IsFailedAsk == IsAsk /\ ~response'.is_intro /\ response'.status # 200

\* C3: on a session with a non-empty id, the k-th completed non-intro ask
\* returns quiz_triggered = true exactly when k is a multiple of the
\* application's frequency, whatever intro, quiz and health requests and asks
\* on other sessions come in between.
C3_EveryFthAsk ==
    \A s \in SessionIds :
        Truthy(s) =>
            \A k \in 1..Len(triggerLog[s]) :
                triggerLog[s][k] = (k % QuizFrequency(veda) = 0)

\* The fourth completed ask of a rigveda session has just triggered, and
\* the three of a samaveda session [false, false, true].
C3_Witness ==
    \/ /\ veda = "rigveda"
       /\ triggerLog["s1"] = <<FALSE, FALSE, FALSE, TRUE>>
       /\ response.op = "ask" /\ response.quiz_triggered
    \/ /\ veda = "samaveda"
       /\ triggerLog["s1"] = <<FALSE, FALSE, TRUE>>
       /\ response.op = "ask" /\ response.quiz_triggered

\* C4: an intro ask answers 200 with the fixed introduction, no verses and
\* quiz_triggered false, calls neither the embedding nor the index nor the
\* chat completion, and leaves conversations and user_quiz_states as they were.
C4_IntroStep ==
    IsIntroAsk =>
        /\ response'.status = 200
        /\ response'.answer = IntroText(veda)
        /\ response'.verses = <<>>
        /\ ~response'.quiz_triggered
        /\ response'.retrieval = "none"
        /\ ~response'.embed_called /\ ~response'.llm_called
        /\ UNCHANGED <<conversations, user_quiz_states>>

C4_IntroIsPure == [][C4_IntroStep]_vars

\* An intro answered for session s2, unknown to the store, while session s1
\* has a recorded exchange and a quiz state.
C4_Witness ==
    /\ response.op = "ask" /\ response.is_intro
    /\ response.session_id = "s2"
    /\ response.answer = IntroText(veda)
    /\ "s2" \notin DOMAIN conversations
    /\ Len(Transcript(conversations, "s1")) >= 2
    /\ HasQuizState("s1")

\* C5: a completed non-intro ask on a session (a non-empty session id)
\* appends to that session's transcript exactly a user message with the
\* query and then a bot message with the returned answer, and changes no other
\* transcript; every step keeps every session and leaves each transcript a
\* prefix of what it becomes.
C5_AppendStep ==
    /\ \A s \in DOMAIN conversations :
          /\ s \in DOMAIN conversations'
          /\ Len(conversations'[s]) >= Len(conversations[s])
          /\ SubSeq(conversations'[s], 1, Len(conversations[s])) = conversations[s]
    /\ (IsCompletedAsk /\ Truthy(response'.session_id)) =>
          /\ response'.session_id \in DOMAIN conversations'
          /\ conversations'[response'.session_id] =
                Transcript(conversations, response'.session_id)
                  \o <<Msg("user", response'.query), Msg("bot", response'.answer)>>
          /\ \A s \in DOMAIN conversations' \ {response'.session_id} :
                /\ s \in DOMAIN conversations
                /\ conversations'[s] = conversations[s]

C5_TranscriptAppend == [][C5_AppendStep]_vars

\* The second exchange of session s1 has just been appended after the first,
\* next to a transcript of session s2.
C5_Witness ==
    /\ response.op = "ask" /\ response.status = 200 /\ ~response.is_intro
    /\ response.session_id = "s1"
    /\ Len(Transcript(conversations, "s1")) = 4
    /\ conversations["s1"][3] = Msg("user", response.query)
    /\ conversations["s1"][4] = Msg("bot", response.answer)
    /\ Len(Transcript(conversations, "s2")) >= 2

\* The response answers a non-intro ask whose retrieval failed: the index or
\* the verses were not loaded, or search raised.
RetrievalFailed ==
    /\ response.op = "ask" /\ ~response.is_intro
    /\ response.retrieval \in {"not_loaded", "raised"}

\* C6: a non-intro ask whose retrieval failed is still answered: status 200,
\* no verses, one of the two sentinel context strings in the prompt, and an
\* answer.
C6_RetrievalFailureStillAnswers ==
    RetrievalFailed =>
        /\ response.status = 200
        /\ response.verses = <<>>
        /\ response.context \in {NotLoadedContext(veda), SearchUnavailableContext(veda)}
        /\ response.answer # ""

\* The last two messages of a transcript are the exchange of the response.
ExchangeRecorded ==
    LET t == Transcript(conversations, response.session_id) IN
    /\ Len(t) >= 2
    /\ t[Len(t) - 1] = Msg("user", response.query)
    /\ t[Len(t)] = Msg("bot", response.answer)

\* C7: a non-intro ask whose chat completion failed is answered 200 with the
\* fallback text that quotes the query, and for a non-empty session id the
\* exchange is recorded and counted as any other.
C7_CompletionFailureFallsBack ==
    (response.op = "ask" /\ response.llm_failed) =>
        /\ response.status = 200
        /\ response.answer = FallbackAnswer(veda, response.query)
        /\ Truthy(response.session_id) =>
              /\ ExchangeRecorded
              /\ HasQuizState(response.session_id)
              /\ user_quiz_states[response.session_id].message_count >= 1

\* Every transcript is a sequence of pairs, a user message then a bot message.
PairedTranscripts(convs) ==
    \A s \in DOMAIN convs :
        /\ Len(convs[s]) % 2 = 0
        /\ \A p \in 1..Len(convs[s]) :
              convs[s][p].sender = IF p % 2 = 1 THEN "user" ELSE "bot"

\* A non-intro ask that ended in an error changed no transcript and no quiz
\* state, and every transcript is paired after the step.
FailedAskKeepsState ==
    /\ IsFailedAsk =>
          /\ \A s \in DOMAIN conversations' \cup DOMAIN conversations :
                Transcript(conversations', s) = Transcript(conversations, s)
          /\ UNCHANGED user_quiz_states
    /\ PairedTranscripts(conversations')

\* The transcript of the ask's session grew by the ask's two messages.
BothAppended ==
    Transcript(conversations', response'.session_id) =
        Transcript(conversations, response'.session_id)
          \o <<Msg("user", response'.query), Msg("bot", response'.answer)>>

C9_Step ==
    /\ (IsIntroAsk \/ response'.op \in {"generate_quiz", "submit_quiz", "health"}) =>
          UNCHANGED user_quiz_states
    /\ response'.op = "submit_quiz" => UNCHANGED conversations
    /\ user_quiz_states' # user_quiz_states =>
          /\ IsCompletedAsk /\ Truthy(response'.session_id)
          /\ user_quiz_states' =
                should_trigger_quiz(veda, user_quiz_states, response'.session_id).states

C9_QuizStateFrame == [][C9_Step]_vars

\* A quiz was generated for session s1 right after its third ask triggered,
\* and the counters stand where the ask left them.
C9_Witness ==
    /\ veda = "atharvaveda"
    /\ response.op = "generate_quiz" /\ response.status = 200
    /\ response.session_id = "s1"
    /\ triggerLog["s1"] = <<FALSE, FALSE, TRUE>>
    /\ user_quiz_states["s1"].message_count = 3
    /\ user_quiz_states["s1"].last_quiz_at = 3

\* C10: for topk > 0, search returns at most topk pairs in the order of the
\* index with strictly descending scores, each pair holding the verse at a
\* row the index has; three aligned rows and topk = 2 give two pairs.
C10_SearchResult ==
    (response.op = "search" /\ response.status = 200 /\ response.topk > 0) =>
        /\ Len(response.pairs) <= response.topk
        /\ \A j \in 1..(Len(response.pairs) - 1) :
              response.pairs[j].score > response.pairs[j + 1].score
        /\ \A j \in 1..Len(response.pairs) :
              /\ response.labels[j] \in 0..(index.ntotal - 1)
              /\ response.pairs[j].verse = VerseAt(response.labels[j])
        /\ (index.ntotal = 3 /\ Len(verses.recs) = 3 /\ response.topk = 2) =>
              Len(response.pairs) = 2

\* C11: whenever index or verses is None, search raises "Index not loaded",
\* returns no pair and has not called embed.
C11_NotLoadedRaisesFirst ==
    (response.op = "search" /\ (~index.some \/ ~verses.some)) =>
        /\ response.status = 500
        /\ response.error = "Index not loaded"
        /\ response.pairs = <<>>
        /\ ~response.embed_called

\* search was called with the index read and the metadata not.
C11_Witness ==
    /\ response.op = "search"
    /\ index.some /\ ~verses.some
    /\ response.error = "Index not loaded"
    /\ ~response.embed_called

\* C12: whenever the embeddings request fails, search raises and returns no
\* pair.
C12_EmbeddingFailureRaises ==
    (response.op = "search" /\ response.embed_failed) =>
        /\ response.status = 500
        /\ response.error = "embedding failed"
        /\ response.pairs = <<>>

\* C13: whenever health reports database_loaded, the verses are as many as
\* the rows of the index.
C13_LoadedMeansAligned ==
    (response.op = "health" /\ response.database_loaded) =>
        /\ Len(verses.recs) = index.ntotal
        /\ response.total_verses = index.ntotal

\* The completion gave nothing generate_mcq_quiz accepts: the call failed, the
\* text did not parse, or it parsed to something without a non-empty
\* 'questions' list.
UnusableQuizReply(r) ==
    \/ ~r.ok
    \/ ~r.is_dict
    \/ ~r.has_questions
    \/ ~r.is_list
    \/ Len(r.questions) = 0

\* C14: generate_mcq_quiz returns at least one question for every topic list
\* and every outcome of the completion, and an unusable completion gives the
\* fixed fallback quiz of the corpus.
C14_QuizNeverEmpty ==
    response.op = "generate" =>
        /\ Len(response.quiz) >= 1
        /\ UnusableQuizReply(response.quiz_reply) =>
               response.quiz = FallbackQuiz(veda)

C14_Witness ==
    /\ response.op = "generate"
    /\ response.topics = <<>>
    /\ response.quiz_reply.is_list
    /\ Len(response.quiz_reply.questions) = 0
    /\ response.quiz = FallbackQuiz(veda)

\* A question with the four fields, exactly the four option letters, and a
\* correct answer among them.
ValidQuestion(q) ==
    /\ q.is_dict
    /\ {"question", "options", "correct_answer", "explanation"} \subseteq q.keys
    /\ q.options = OptionKeys
    /\ q.correct_answer \in q.options

\* C15: every question of a quiz generate_mcq_quiz returns is structurally
\* valid; a completion holding an invalid question is replaced by the
\* fallback quiz.
C15_QuizAlwaysValid ==
    response.op = "generate" =>
        /\ \A j \in 1..Len(response.quiz) : ValidQuestion(response.quiz[j])
        /\ (\E j \in 1..Len(response.quiz_reply.questions) :
                ~ValidQuestion(response.quiz_reply.questions[j]))
             => response.quiz = FallbackQuiz(veda)

\* The entries of a completion, blanks removed around each, the empty ones
\* left out, in their order.
RECURSIVE CleanEntries(_)
CleanEntries(entries) ==
    IF entries = <<>> THEN <<>>
    ELSE LET t == Strip(Head(entries))
         IN  IF t = "" THEN CleanEntries(Tail(entries))
             ELSE <<t>> \o CleanEntries(Tail(entries))

\* C16: extraction returns 1 to 5 topics; the default set when the completion
\* failed or held no non-empty entry, else the first five at most of the
\* trimmed non-empty entries, in their order.
C16_TopicsOneToFive ==
    (response.op = "extract" /\ response.llm_called) =>
        LET clean == CleanEntries(response.topics_reply.entries)
            n     == IF Len(clean) < 5 THEN Len(clean) ELSE 5
        IN  /\ Len(response.topics) \in 1..5
            /\ IF ~response.topics_reply.ok \/ Len(clean) = 0
               THEN response.topics = DefaultTopics(veda)
               ELSE /\ Len(response.topics) = n
                    /\ \A j \in 1..n : response.topics[j] = clean[j]

C16_Witness ==
    /\ response.op = "extract"
    /\ response.llm_called
    /\ response.topics_reply.ok
    /\ Len(CleanEntries(response.topics_reply.entries)) = 6
    /\ response.topics_reply.entries[2] = " Agni "
    /\ Len(response.topics) = 5
    /\ response.topics[2] = "Agni"

\* C17: a transcript of fewer than two messages gets the default topics, and
\* the completion is not requested.
C17_ShortTranscriptDefault ==
    (response.op = "extract" /\ response.history_len < 2) =>
        /\ response.topics = DefaultTopics(veda)
        /\ ~response.llm_called

C17_Witness ==
    /\ response.op = "extract"
    /\ response.history_len = 1
    /\ response.topics_reply.ok
    /\ CleanEntries(response.topics_reply.entries) = <<"soma">>
    /\ response.topics = DefaultTopics(veda)
    /\ ~response.llm_called


IsSubmit == response.op \in {"submit_quiz", "main_submit_quiz"}

\* Question position j (from 1) was answered with its correct letter: the key
\* j - 1 was sent and holds exactly that letter.
AnsweredCorrectly(j) ==
    /\ (j - 1) \in DOMAIN response.answers
    /\ response.answers[j - 1] = response.quiz[j].correct_answer

WellFormedQuiz ==
    /\ Len(response.quiz) >= 1
    /\ \A j \in 1..Len(response.quiz) : ValidQuestion(response.quiz[j])

Abs(x) == IF x < 0 THEN 0 - x ELSE x

\* The reported percentage is within half a tenth of tenths / 10.
PercentageNear(tenths) ==
    2 * Abs(10 * response.percentage.num - tenths * response.percentage.den)
        <= response.percentage.den

\* C18: both submit handlers report, for a quiz of well-formed questions and
\* any answers mapping, the number of positions answered with exactly the
\* correct letter, and is_correct per question; an unanswered question is
\* incorrect.  With correct answers A, B, C and answers 0:A, 1:B, 2:Z the
\* report is score 2 of 3, about 66.7 percent, the third result incorrect.
C18_ScoreCountsExactMatches ==
    (IsSubmit /\ WellFormedQuiz) =>
        /\ response.status = 200
        /\ Len(response.results) = Len(response.quiz)
        /\ response.score =
              Cardinality({ j \in 1..Len(response.quiz) : AnsweredCorrectly(j) })
        /\ \A j \in 1..Len(response.quiz) :
              /\ response.results[j].is_correct = AnsweredCorrectly(j)
              /\ (j - 1) \notin DOMAIN response.answers =>
                     ~response.results[j].is_correct
        /\ ( /\ [j \in 1..Len(response.quiz) |-> response.quiz[j].correct_answer]
                  = <<"A", "B", "C">>
             /\ response.answers = (0 :> "A") @@ (1 :> "B") @@ (2 :> "Z") )
           => /\ response.score = 2
              /\ response.total = 3
              /\ PercentageNear(667)
              /\ ~response.results[3].is_correct

C18_Witness ==
    /\ response.op = "main_submit_quiz"
    /\ [j \in 1..Len(response.quiz) |-> response.quiz[j].correct_answer]
          = <<"A", "B", "C">>
    /\ response.answers = (0 :> "a") @@ (1 :> "B")
    /\ response.score = 1
    /\ ~response.results[1].is_correct
    /\ ~response.results[3].is_correct

\* C19: a submitted quiz holding a question without correct_answer, at any
\* position, is rejected with status 400 and no results.
C19_MissingAnswerRejected ==
    (IsSubmit /\ \E j \in 1..Len(response.quiz) :
                    "correct_answer" \notin response.quiz[j].keys) =>
        /\ response.status = 400
        /\ response.results = <<>>

\* C20 as stated: every report has total = number of questions and a
\* percentage of one decimal, the nearest to 100 * score / total, and 0 for a
\* total of 0.
C20_PercentageOneDecimal ==
    (IsSubmit /\ response.status = 200) =>
        /\ response.total = Len(response.quiz)
        /\ (10 * response.percentage.num) % response.percentage.den = 0
        /\ response.total > 0 =>
              20 * Abs(response.percentage.num * response.total
                          - 100 * response.score * response.percentage.den)
                  <= response.percentage.den * response.total
        /\ response.total = 0 => response.percentage.num = 0

\* C20, amended: every report has total = number of questions.  rigveda_app
\* reports the percentage as the nearest tenth to 100 * score / total and never
\* reports a total of 0 (an empty quiz is refused with 400); vedas_main_app
\* reports exactly 100 * score / total, unrounded, and 0 for a total of 0.
C20_PercentagePerHandler ==
    /\ (IsSubmit /\ response.status = 200) =>
          /\ response.total = Len(response.quiz)
          /\ response.total > 0 =>
                20 * Abs(response.percentage.num * response.total
                            - 100 * response.score * response.percentage.den)
                    <= response.percentage.den * response.total
          /\ response.total = 0 => response.percentage.num = 0
    /\ (response.op = "submit_quiz" /\ response.status = 200) =>
          /\ response.total > 0
          /\ response.percentage.den = 10
    /\ (response.op = "submit_quiz" /\ Len(response.quiz) = 0) =>
          response.status = 400
    /\ (response.op = "main_submit_quiz" /\ response.status = 200
            /\ response.total > 0) =>
          response.percentage.num * response.total
              = 100 * response.score * response.percentage.den

C20_Witness ==
    /\ response.op = "submit_quiz"
    /\ response.status = 200
    /\ response.score = 2
    /\ response.total = 3
    /\ response.percentage = Percentage(667, 10)


IsGenerate == response'.op \in {"generate_quiz", "main_generate_quiz"}

\* C21: a quiz request for a session with at least one recorded exchange is
\* answered 200 with a quiz of at least one question and 1 to 5 topics, drawn
\* from the whole transcript of the session, and leaves every transcript as
\* it was.
C21_Step ==
    (IsGenerate /\ triggerLog[response'.session_id] # <<>>) =>
        /\ response'.status = 200
        /\ Len(response'.quiz) >= 1
        /\ Len(response'.topics) \in 1..5
        /\ response'.history_len = Len(conversations[response'.session_id])
        /\ response'.history_len >= 2
        /\ conversations' = conversations

C21_GenerateAfterAsk == [][C21_Step]_vars

C21_Witness ==
    /\ response.op = "main_generate_quiz"
    /\ response.status = 200
    /\ Len(triggerLog[response.session_id]) >= 2
    /\ response.history_len = 4
    /\ response.topics = <<"Agni", "soma">>


\* What application w holds for session t: its transcript and its quiz
\* state, each with whether it exists.
Slot(a, w, t) ==
    [has_conversation |-> t \in DOMAIN a[w].conversations,
     conversation |-> Transcript(a[w].conversations, t),
     has_quiz_state |-> t \in DOMAIN a[w].user_quiz_states,
     message_count |-> IF t \in DOMAIN a[w].user_quiz_states
                       THEN a[w].user_quiz_states[t].message_count ELSE 0,
     last_quiz_at |-> IF t \in DOMAIN a[w].user_quiz_states
                      THEN a[w].user_quiz_states[t].last_quiz_at ELSE 0]

\* C22: an ask or a quiz request on session s of one application leaves the
\* transcript and the quiz state of every other session of that application,
\* and of every session of the three other applications, as they were.
C22_Step ==
    response'.op \in {"ask", "generate_quiz", "main_generate_quiz"} =>
        \A w \in Vedas, t \in SessionIds :
            (w # response'.app \/ t # response'.session_id) =>
                Slot(apps', w, t) = Slot(apps, w, t)

C22_SessionsPartitioned == [][C22_Step]_vars

\* A state reached by a request that changed its own session while another
\* session of the same application, and the same session id in another
\* application, already held something.
C22_Witness ==
    /\ response.op = "ask"
    /\ response.status = 200
    /\ response.app = "samaveda"
    /\ response.session_id = "s1"
    /\ Len(Transcript(apps["samaveda"].conversations, "s1")) = 2
    /\ "s2" \in DOMAIN apps["samaveda"].user_quiz_states
    /\ "s1" \in DOMAIN apps["rigveda"].conversations


\* No request in progress.
Quiescent == \A t \in Threads : threads.pc[t] = "idle"

\* C23: once the asks started on a session have all returned, its
\* message_count is their number and the asks that returned True are as many
\* as the quiz periods that number holds.
C23_CountsEveryAsk ==
    (Quiescent /\ threads.done >= 1) =>
        /\ RaceSession \in DOMAIN user_quiz_states
        /\ user_quiz_states[RaceSession].message_count = threads.done
        /\ threads.trues = threads.done \div QuizFrequency(veda)

\* C24: once the asks started on a session have all returned, the transcript
\* holds, for each of them, its user message immediately followed by its
\* assistant message.
C24_PairsKept ==
    Quiescent =>
        \A n \in 1..threads.done :
            \E i \in 1..(Len(Transcript(conversations, RaceSession)) - 1) :
                /\ conversations[RaceSession][i] = Msg("user", CallQuery(n))
                /\ conversations[RaceSession][i + 1] = Msg("bot", CallAnswer(n))


\* The transcript of session s begins with a user message and an assistant
\* message that no ask recorded.
Seeded(convs, s) ==
    /\ s \in DOMAIN convs
    /\ Len(convs[s]) >= 2
    /\ SubSeq(convs[s], 1, 2) = SeedConversation(veda)

\* A completed ask on an auto-seeded session appends after the seed.
AskKeepsSeed ==
    (IsCompletedAsk /\ Seeded(conversations, response'.session_id)) =>
        /\ Seeded(conversations', response'.session_id)
        /\ Len(conversations'[response'.session_id])
              = Len(conversations[response'.session_id]) + 2

\* C25 as stated, for both handlers: a quiz request for an unseen session
\* stores a two-message transcript, creates no quiz state and returns a quiz;
\* a quiz request fails only on an empty transcript.
C25_Step ==
    /\ (IsGenerate /\ response'.session_id \notin DOMAIN conversations) =>
          /\ response'.status = 200
          /\ Len(response'.quiz) >= 1
          /\ response'.session_id \in DOMAIN conversations'
          /\ Len(conversations'[response'.session_id]) = 2
          /\ conversations'[response'.session_id][1].sender = "user"
          /\ conversations'[response'.session_id][2].sender = "bot"
          /\ UNCHANGED user_quiz_states
    /\ (IsGenerate /\ response'.status # 200) =>
          /\ response'.session_id \in DOMAIN conversations
          /\ conversations[response'.session_id] = <<>>
    /\ AskKeepsSeed

C25_UnseenSessionSeeded == [][C25_Step]_vars

\* C25, amended: api_generate_quiz of the four applications does so, and of
\* them only rigveda_app refuses an empty transcript; rigveda_api_generate_quiz
\* of vedas_main_app refuses an unseen session with 400 and stores nothing,
\* and answers for every session that exists.
C25_StepPerHandler ==
    /\ (response'.op = "generate_quiz"
            /\ response'.session_id \notin DOMAIN conversations) =>
          /\ response'.status = 200
          /\ Len(response'.quiz) >= 1
          /\ DOMAIN conversations' = DOMAIN conversations \cup {response'.session_id}
          /\ Len(conversations'[response'.session_id]) = 2
          /\ conversations'[response'.session_id][1].sender = "user"
          /\ conversations'[response'.session_id][2].sender = "bot"
          /\ UNCHANGED user_quiz_states
    /\ (response'.op = "generate_quiz" /\ response'.status # 200) =>
          /\ response'.status = 400
          /\ veda = "rigveda"
          /\ response'.session_id \in DOMAIN conversations
          /\ conversations[response'.session_id] = <<>>
    /\ (response'.op = "generate_quiz" /\ veda # "rigveda") =>
          response'.status = 200
    /\ response'.op = "main_generate_quiz" =>
          /\ UNCHANGED <<conversations, user_quiz_states>>
          /\ response'.status =
                IF response'.session_id \in DOMAIN conversations THEN 200 ELSE 400
    /\ AskKeepsSeed

C25_UnseenSessionPerHandler == [][C25_StepPerHandler]_vars

\* An ask recorded on a session that a quiz request had created.
C25_Witness ==
    /\ response.op = "ask"
    /\ response.status = 200
    /\ Seeded(conversations, response.session_id)
    /\ Len(conversations[response.session_id]) = 4
    /\ conversations[response.session_id][3].sender = "user"
    /\ HasQuizState(response.session_id)


\* C26: after load_data the index and the verses are both set or both None,
\* and health reports the database loaded exactly when they are set.
C26_LoadAllOrNothing ==
    response.op = "health" =>
        /\ index.some <=> verses.some
        /\ response.database_loaded <=> index.some


\* C27: a quiz generate_mcq_quiz returned, submitted unchanged with any
\* answers, is graded: status 200 and a total of as many questions as it has.
C27_GeneratedQuizGrades ==
    response.op = "submit_quiz" =>
        /\ response.status = 200
        /\ response.total = Len(response.quiz)


\* C28: no step removes a session or shortens a transcript (what a session
\* held stays as the beginning of what it holds), and health reports as
\* active_conversations the number of session ids in conversations.
C28_Step ==
    /\ \A s \in DOMAIN conversations :
          /\ s \in DOMAIN conversations'
          /\ Len(conversations'[s]) >= Len(conversations[s])
          /\ SubSeq(conversations'[s], 1, Len(conversations[s])) = conversations[s]
    /\ response'.op = "health" =>
          response'.active_conversations = Cardinality(DOMAIN conversations')

C28_SessionsOnlyGrow == [][C28_Step]_vars

\* Health counting two sessions: one created by a quiz request, one left
\* empty by an ask that failed.
C28_Witness ==
    /\ response.op = "health"
    /\ response.active_conversations = 2
    /\ Seeded(conversations, "s1")
    /\ "s2" \in DOMAIN conversations
    /\ conversations["s2"] = <<>>

\* message_count of a session, 0 while it has no quiz state.
ExchangeCount(s) ==
    IF s \in DOMAIN user_quiz_states THEN user_quiz_states[s].message_count ELSE 0

\* C29: between requests every transcript has even length, twice the
\* message_count of the session plus the two seed messages if a quiz request
\* created it, and a session has a quiz state iff an ask was recorded on it.
C29_TranscriptMatchesCount ==
    /\ \A s \in DOMAIN conversations :
          /\ Len(conversations[s]) % 2 = 0
          /\ 2 * ExchangeCount(s) <= Len(conversations[s])
          /\ Len(conversations[s]) - 2 * ExchangeCount(s)
                = IF Seeded(conversations, s) THEN 2 ELSE 0
    /\ \A s \in SessionIds :
          /\ HasQuizState(s) <=> triggerLog[s] # <<>>
          /\ HasQuizState(s) => s \in DOMAIN conversations
          /\ ExchangeCount(s) = Len(triggerLog[s])

C29_Witness ==
    /\ Seeded(conversations, "s1")
    /\ Len(conversations["s1"]) = 4
    /\ ExchangeCount("s1") = 1
    /\ "s2" \in DOMAIN conversations
    /\ ~Seeded(conversations, "s2")
    /\ Len(conversations["s2"]) = 2
    /\ ExchangeCount("s2") = 1


\* C30: an ask that is no introduction and carries the empty session id is
\* answered where the application can answer at all, changes neither
\* conversations nor user_quiz_states, and returns quiz_triggered false.
C30_Step ==
    (IsAsk /\ ~response'.is_intro /\ response'.query # ""
         /\ response'.session_id = "") =>
        /\ UNCHANGED <<conversations, user_quiz_states>>
        /\ "" \notin DOMAIN conversations'
        /\ "" \notin DOMAIN user_quiz_states'
        /\ ~response'.quiz_triggered
        /\ (veda # "rigveda" \/ (index.some /\ verses.some)) =>
              /\ response'.status = 200
              /\ response'.answer # ""

====
